---- MODULE Spec2Model ----
(***************************************************************************)
(* MouseMinder: the polling engine of tracker.rs, the tracker's public     *)
(* operations, the hotkey listener of hotkeys.rs and the facade's          *)
(* handle_hotkeys of app.rs, as three threads over two mutex-guarded cells *)
(* and one channel.                                                        *)
(*                                                                         *)
(* Threads interleave at lock acquisitions: every action below holds at    *)
(* most one mutex and is the code between two acquisitions.  Spec takes    *)
(* each critical section in one step; LockSpec also shows a thread that    *)
(* has locked a mutex and not yet used it, and HotkeySpec a hotkey event   *)
(* that the listener has received and not yet handled.                     *)
(***************************************************************************)
EXTENDS Integers, Sequences, FiniteSets, TLC

VARIABLES
    is_tracking,              \* Arc<Mutex<bool>>                      tracker.rs:17
    saved_position,           \* Arc<Mutex<Option<SavedPosition>>>     tracker.rs:18
    is_tracking_lock,         \* the thread holding is_tracking's mutex, or "free"
    saved_position_lock,      \* the thread holding saved_position's mutex, or "free"
    epc,                      \* polling thread: "check" | "sample" | "save" | "sleep"
    last_position,            \* polling thread local                  tracker.rs:44
    last_movement_time,       \* polling thread local                  tracker.rs:45
    current_position,         \* polling thread local (in scope at "save") tracker.rs:53
    mouse,                    \* the OS pointer
    now,                      \* the clock, in ms
    hpc,                      \* listener thread: "start" | "listening" | "done"
    event,                    \* listener thread local, and what became of it  hotkeys.rs:39
    hotkey_receiver,          \* the mpsc channel's content            app.rs:12
    upc,                      \* UI thread: "ui" | "drain" | "restore_hotkey" | "restore_button" | "exited"
    pos,                      \* restore_position's copy of the store  tracker.rs:119
    last_restore_time,        \* app.rs:13
    restore_feedback_visible, \* app.rs:14
    ever_started,             \* observer: start_tracking has been called
    last_call,                \* observer: the UI thread's most recent tracker call
    ret,                      \* observer: what the most recent call returned
    enigo,                    \* observer: Enigo::new in the current restore_position
    issued,                   \* observer: pointer moves issued by the current restore_position
    tick_outcome,             \* observer: what the polling thread's last tick did
    drain_queued,             \* observer: channel length when handle_hotkeys began
    drain_recv,               \* observer: actions received by the current handle_hotkeys
    drain_calls               \* observer: restore_position calls of the current handle_hotkeys

vars == <<is_tracking, saved_position, is_tracking_lock, saved_position_lock, epc,
          last_position, last_movement_time, current_position, mouse, now, hpc, event,
          hotkey_receiver, upc, pos,
          last_restore_time, restore_feedback_visible, ever_started, last_call, ret,
          enigo, issued, tick_outcome, drain_queued, drain_recv, drain_calls>>

engineVars == <<epc, last_position, last_movement_time, current_position, tick_outcome>>
listenerVars == <<hpc, event>>
lockVars == <<is_tracking_lock, saved_position_lock>>
facadeVars == <<last_restore_time, restore_feedback_visible>>
drainVars == <<drain_queued, drain_recv, drain_calls>>
callVars == <<last_call, ret, enigo, issued>>

----
\* Program constants (config.rs)
INACTIVITY_THRESHOLD_MS == 2000
POLL_INTERVAL_MS == 50
FEEDBACK_DURATION_MS == 2000

\* Bounds of the model
MaxTime == 4000               \* the clock's horizon
MaxPending == 2               \* actions queued, or received by the handle_hotkeys under way

\* The clock advances by half the inactivity threshold, so that elapsed times
\* fall below, on and above each >= 2000 comparison.
TimeStep == INACTIVITY_THRESHOLD_MS \div 2

\* Pointer coordinates (x, y); (0, 0) is the engine's initial last_position.
Points == {<<0, 0>>, <<100, 200>>}

\* Option<T>
None == {}
Some(v) == {v}
IsSome(o) == o # {}
Unwrap(o) == CHOOSE v \in o : TRUE

\* What a call returned, as the caller sees it: (), a bool or an Option<SavedPosition>
Unit == [bool |-> FALSE, position |-> None]
Bool(b) == [bool |-> b, position |-> None]
Position(o) == [bool |-> FALSE, position |-> o]

SavedPosition_Swapped(x, y, timestamp) == [x |-> y, y |-> x, timestamp |-> timestamp]

SavedPosition(x, y, timestamp) == [x |-> x, y |-> y, timestamp |-> timestamp]

Min(a, b) == IF a < b THEN a ELSE b

\* Mutex::lock().unwrap() returns for thread `me`: the mutex is free, or `me`
\* locked it in an earlier step (EngineLock, UILock)
Lockable(holder, me) == holder \in {"free", me}

Dropped_Leaked(me) == me

\* the MutexGuard goes out of scope: the mutex is free again
Dropped(me) == "free"

----
Init ==
    /\ is_tracking = FALSE
    /\ saved_position = None
    /\ is_tracking_lock = "free"
    /\ saved_position_lock = "free"
    /\ epc = "check"
    /\ last_position = <<0, 0>>
    /\ last_movement_time = 0
    /\ current_position = None
    /\ mouse \in Points
    /\ now = 0
    /\ hpc = "start"
    /\ event = None
    /\ hotkey_receiver = <<>>
    /\ upc = "ui"
    /\ pos = None
    /\ last_restore_time = None
    /\ restore_feedback_visible = FALSE
    /\ ever_started = FALSE
    /\ last_call = "none"
    /\ ret = Unit
    /\ enigo = "unused"
    /\ issued = <<>>
    /\ tick_outcome = "none"
    /\ drain_queued = 0
    /\ drain_recv = 0
    /\ drain_calls = 0

----
\* Environment: the clock and the user's hand on the pointer.

Tick ==
    /\ now < MaxTime
    /\ now' = Min(now + TimeStep, MaxTime)
    /\ UNCHANGED <<is_tracking, saved_position, engineVars, mouse, listenerVars,
                   hotkey_receiver, upc, pos, facadeVars, ever_started, callVars,
                   drainVars>>
    /\ UNCHANGED lockVars

MouseMove ==
    /\ \E p \in Points \ {mouse} : mouse' = p
    /\ UNCHANGED <<is_tracking, saved_position, engineVars, now, listenerVars,
                   hotkey_receiver, upc, pos, facadeVars, ever_started, callVars,
                   drainVars>>
    /\ UNCHANGED lockVars

----
\* The polling thread (tracker.rs:42-86). One tick of its loop is EngineCheck,
\* then EngineSample when tracking was read true, then EngineSave when the
\* pointer has been idle; each ends in thread::sleep unless the next follows.

\* thread::sleep(Duration::from_millis(POLL_INTERVAL_MS)), after a tick that did `outcome`
Sleep(outcome) ==
    /\ epc' = "sleep"
    /\ tick_outcome' = outcome

AfterCheck_Always(tracking) == "sample"

\* if tracking { ... }
AfterCheck(tracking) == IF tracking THEN "sample" ELSE "sleep"

\* let tracking = { *is_tracking.lock().unwrap() }; if tracking ...
EngineCheck ==
    /\ epc = "check"
    /\ Lockable(is_tracking_lock, "engine")
    /\ is_tracking_lock' = Dropped("engine")
    /\ UNCHANGED saved_position_lock
    /\ epc' = AfterCheck(is_tracking)
    /\ tick_outcome' = IF epc' = "sleep" THEN "skipped" ELSE tick_outcome
    /\ UNCHANGED <<is_tracking, saved_position, last_position, last_movement_time,
                   current_position, mouse, now, listenerVars, hotkey_receiver, upc, pos,
                   facadeVars, ever_started, callVars, drainVars>>

Moved_Never(cur, last) == FALSE

\* current_position.0 != last_position.0 || current_position.1 != last_position.1
Moved(cur, last) == cur[1] # last[1] \/ cur[2] # last[2]

IdleLongEnough_NoThreshold(elapsed) == elapsed >= 0

\* elapsed >= INACTIVITY_THRESHOLD_MS
IdleLongEnough(elapsed) == elapsed >= INACTIVITY_THRESHOLD_MS

\* device_state.get_mouse().coords, the movement test and the idle test
EngineSample ==
    /\ epc = "sample"
    /\ LET cur == mouse IN
       IF Moved(cur, last_position)
       THEN /\ last_movement_time' = now
            /\ last_position' = cur
            /\ current_position' = None
            /\ Sleep("moved")
       ELSE /\ UNCHANGED <<last_movement_time, last_position>>
            /\ IF IdleLongEnough(now - last_movement_time)
               THEN /\ epc' = "save"
                    /\ current_position' = Some(cur)
                    /\ UNCHANGED tick_outcome
               ELSE /\ current_position' = None
                    /\ Sleep("waiting")
    /\ UNCHANGED <<is_tracking, saved_position, mouse, now, listenerVars,
                   hotkey_receiver, upc, pos, facadeVars, ever_started, callVars,
                   drainVars>>
    /\ UNCHANGED lockVars

ShouldUpdate_Always(pos_guard, cur) == TRUE

\* should_update: None => true, Some(p) => p.x != cur.0 || p.y != cur.1
ShouldUpdate(pos_guard, cur) ==
    IF pos_guard = None THEN TRUE
    ELSE Unwrap(pos_guard).x # cur[1] \/ Unwrap(pos_guard).y # cur[2]

\* saved_position.lock(); if should_update { *pos_guard = Some(SavedPosition{..}) }
EngineSave ==
    /\ epc = "save"
    /\ Lockable(saved_position_lock, "engine")
    /\ saved_position_lock' = Dropped("engine")
    /\ UNCHANGED is_tracking_lock
    /\ LET cur == Unwrap(current_position) IN
       IF ShouldUpdate(saved_position, cur)
       THEN /\ saved_position' = Some(SavedPosition(cur[1], cur[2], now))
            /\ Sleep("wrote")
       ELSE /\ saved_position' = saved_position
            /\ Sleep("kept")
    /\ current_position' = None
    /\ UNCHANGED <<is_tracking, last_position, last_movement_time, mouse, now,
                   listenerVars, hotkey_receiver, upc, pos, facadeVars, ever_started,
                   callVars, drainVars>>

\* The clock periods a sleep is sure to span: the poll interval is below the
\* clock's resolution, so a sleep may end within the period it began in.
SleepTicks == POLL_INTERVAL_MS \div TimeStep

\* thread::sleep returns and the loop starts over
EngineWake ==
    /\ epc = "sleep"
    /\ SleepTicks = 0
    /\ epc' = "check"
    /\ tick_outcome' = "none"
    /\ UNCHANGED <<is_tracking, saved_position, last_position, last_movement_time,
                   current_position, mouse, now, listenerVars, hotkey_receiver,
                   upc, pos, facadeVars, ever_started, callVars, drainVars>>
    /\ UNCHANGED lockVars

Engine == EngineCheck \/ EngineSample \/ EngineSave \/ EngineWake

----
\* The hotkey listener thread (hotkeys.rs:22-46).

RestoreId == "restore_id"     \* restore_hotkey.id()
OtherId == "other_id"         \* any other identifier on the global event receiver

HotKeyStates == {"Pressed", "Released"}

Matches_AnyState(state, id) == id = RestoreId

\* event.state == HotKeyState::Pressed && event.id == restore_id
Matches(state, id) == state = "Pressed" /\ id = RestoreId

\* GlobalHotKeyManager::new() and manager.register(restore_hotkey)
ListenerStart ==
    /\ hpc = "start"
    /\ \E manager_ok \in BOOLEAN, register_ok \in BOOLEAN :
          hpc' = IF manager_ok /\ register_ok THEN "listening" ELSE "done"
    /\ UNCHANGED <<is_tracking, saved_position, engineVars, mouse, now, event,
                   hotkey_receiver, upc, pos, facadeVars, ever_started, callVars,
                   drainVars>>
    /\ UNCHANGED lockVars

\* a GlobalHotKeyEvent { id, state }, and what the listener has done with it:
\* "received" | "ignored" | "sent" | "send_err"
Event(state, id, status) == [state |-> state, id |-> id, status |-> status]

\* recv() has returned this event and the loop body has not yet run on it
Received(e) == IsSome(e) /\ Unwrap(e).status = "received"

\* event_receiver.recv() returns an event (hotkeys.rs:39)
EventArrives ==
    /\ hpc = "listening"
    /\ ~Received(event)
    /\ \E state \in HotKeyStates, id \in {RestoreId, OtherId} :
          event' = Some(Event(state, id, "received"))
    /\ UNCHANGED <<is_tracking, saved_position, engineVars, mouse, now, hpc,
                   hotkey_receiver, upc, pos, facadeVars, ever_started, callVars,
                   drainVars>>
    /\ UNCHANGED lockVars

\* action_sender.send(HotKeyAction::RestorePosition): Err once the Receiver is dropped
Send(channel, receiver_alive) ==
    IF receiver_alive THEN Append(channel, "RestorePosition") ELSE channel

\* what the loop body does with an event; `let _ =` discards the send's result
Handled(state, id, receiver_alive) ==
    IF ~Matches(state, id) THEN "ignored"
    ELSE IF receiver_alive THEN "sent" ELSE "send_err"

ListenerEvent_AfterFailure ==
    /\ hpc \in {"listening", "done"}
    /\ Len(hotkey_receiver) + drain_recv < MaxPending
    /\ \E state \in HotKeyStates, id \in {RestoreId, OtherId} :
          /\ Received(event) => event = Some(Event(state, id, "received"))
          /\ hotkey_receiver' = IF Matches(state, id)
                                THEN Send(hotkey_receiver, upc # "exited")
                                ELSE hotkey_receiver
          /\ event' = IF Received(event)
                      THEN Some(Event(state, id, Handled(state, id, upc # "exited")))
                      ELSE event
    /\ UNCHANGED <<is_tracking, saved_position, engineVars, mouse, now, hpc, upc, pos,
                   facadeVars, ever_started, callVars, drainVars>>
    /\ UNCHANGED lockVars

\* while let Ok(event) = event_receiver.recv() { if .. { let _ = action_sender.send(..) } }
\* on the event recv() returned in EventArrives, or on one it returns now
ListenerEvent ==
    /\ hpc = "listening"
    /\ Len(hotkey_receiver) + drain_recv < MaxPending
    /\ \E state \in HotKeyStates, id \in {RestoreId, OtherId} :
          /\ Received(event) => event = Some(Event(state, id, "received"))
          /\ hotkey_receiver' = IF Matches(state, id)
                                THEN Send(hotkey_receiver, upc # "exited")
                                ELSE hotkey_receiver
          /\ event' = IF Received(event)
                      THEN Some(Event(state, id, Handled(state, id, upc # "exited")))
                      ELSE event
    /\ UNCHANGED <<is_tracking, saved_position, engineVars, mouse, now, hpc, upc, pos,
                   facadeVars, ever_started, callVars, drainVars>>
    /\ UNCHANGED lockVars

Listener == ListenerStart \/ ListenerEvent

----
\* The UI thread: the tracker's public operations (tracker.rs:89-127).

\* a call that returns at once: the caller's observation of it
Returned(name, value) ==
    /\ last_call' = name
    /\ ret' = value
    /\ enigo' = "unused"
    /\ issued' = <<>>

StartTracking ==
    /\ upc = "ui"
    /\ Lockable(is_tracking_lock, "ui") /\ saved_position_lock # "ui"
    /\ is_tracking_lock' = Dropped("ui")
    /\ UNCHANGED saved_position_lock
    /\ is_tracking' = TRUE
    /\ ever_started' = TRUE
    /\ Returned("start_tracking", Unit)
    /\ UNCHANGED <<saved_position, engineVars, mouse, now, listenerVars, hotkey_receiver,
                   upc, pos, facadeVars, drainVars>>

StopTracking_Toggle ==
    /\ upc = "ui"
    /\ Lockable(is_tracking_lock, "ui") /\ saved_position_lock # "ui"
    /\ is_tracking_lock' = Dropped("ui")
    /\ UNCHANGED saved_position_lock
    /\ is_tracking' = ~is_tracking
    /\ Returned("stop_tracking", Unit)
    /\ UNCHANGED <<saved_position, engineVars, mouse, now, listenerVars, hotkey_receiver,
                   upc, pos, facadeVars, ever_started, drainVars>>

StopTracking ==
    /\ upc = "ui"
    /\ Lockable(is_tracking_lock, "ui") /\ saved_position_lock # "ui"
    /\ is_tracking_lock' = Dropped("ui")
    /\ UNCHANGED saved_position_lock
    /\ is_tracking' = FALSE
    /\ Returned("stop_tracking", Unit)
    /\ UNCHANGED <<saved_position, engineVars, mouse, now, listenerVars, hotkey_receiver,
                   upc, pos, facadeVars, ever_started, drainVars>>

IsTracking ==
    /\ upc = "ui"
    /\ Lockable(is_tracking_lock, "ui") /\ saved_position_lock # "ui"
    /\ is_tracking_lock' = Dropped("ui")
    /\ UNCHANGED saved_position_lock
    /\ Returned("is_tracking", Bool(is_tracking))
    /\ UNCHANGED <<is_tracking, saved_position, engineVars, mouse, now, listenerVars,
                   hotkey_receiver, upc, pos, facadeVars, ever_started, drainVars>>

GetSavedPosition_Take ==
    /\ upc = "ui"
    /\ Lockable(saved_position_lock, "ui") /\ is_tracking_lock # "ui"
    /\ saved_position_lock' = Dropped("ui")
    /\ UNCHANGED is_tracking_lock
    /\ Returned("get_saved_position", Position(saved_position))
    /\ saved_position' = None
    /\ UNCHANGED <<is_tracking, engineVars, mouse, now, listenerVars,
                   hotkey_receiver, upc, pos, facadeVars, ever_started, drainVars>>

GetSavedPosition ==
    /\ upc = "ui"
    /\ Lockable(saved_position_lock, "ui") /\ is_tracking_lock # "ui"
    /\ saved_position_lock' = Dropped("ui")
    /\ UNCHANGED is_tracking_lock
    /\ Returned("get_saved_position", Position(saved_position))
    /\ UNCHANGED <<is_tracking, saved_position, engineVars, mouse, now, listenerVars,
                   hotkey_receiver, upc, pos, facadeVars, ever_started, drainVars>>

Cleared_Kept(store) == store

\* *pos = None
Cleared(store) == None

ResetPosition ==
    /\ upc = "ui"
    /\ Lockable(saved_position_lock, "ui") /\ is_tracking_lock # "ui"
    /\ saved_position_lock' = Dropped("ui")
    /\ UNCHANGED is_tracking_lock
    /\ saved_position' = Cleared(saved_position)
    /\ Returned("reset_position", Unit)
    /\ UNCHANGED <<is_tracking, engineVars, mouse, now, listenerVars, hotkey_receiver,
                   upc, pos, facadeVars, ever_started, drainVars>>

Feedback_NoStamp(restored) ==
    /\ restore_feedback_visible' = (restored \/ restore_feedback_visible)
    /\ UNCHANGED last_restore_time

Feedback_Always(restored) ==
    /\ last_restore_time' = Some(now)
    /\ restore_feedback_visible' = TRUE

\* What both callers do with restore_position's result (app.rs:44-48, 312-317)
Feedback(restored) ==
    IF restored
    THEN /\ last_restore_time' = Some(now)
         /\ restore_feedback_visible' = TRUE
    ELSE UNCHANGED facadeVars

NoPosition_True == TRUE

\* restore_position's result with no saved position: the final `false`
NoPosition == FALSE

\* restore_position, first half: if let Some(pos) = self.get_saved_position().
\* With no saved position it returns at once, to `idle`; else it goes on at `busy`.
RestoreRead(busy, idle) ==
    /\ Lockable(saved_position_lock, "ui") /\ is_tracking_lock # "ui"
    /\ saved_position_lock' = Dropped("ui")
    /\ UNCHANGED is_tracking_lock
    /\ last_call' = "restore_position"
    /\ enigo' = "unused"
    /\ issued' = <<>>
    /\ IF saved_position = None
       THEN /\ ret' = Bool(NoPosition)
            /\ pos' = None
            /\ upc' = idle
            /\ Feedback(ret'.bool)
       ELSE /\ ret' = Unit
            /\ pos' = saved_position
            /\ upc' = busy
            /\ UNCHANGED facadeVars
    /\ UNCHANGED <<is_tracking, saved_position, engineVars, mouse, now, listenerVars,
                   ever_started>>

MoveCommands_Twice(p, move_ok) ==
    << [x |-> p.x, y |-> p.y, coordinate |-> "Abs", ok |-> move_ok],
       [x |-> p.x, y |-> p.y, coordinate |-> "Abs", ok |-> move_ok] >>

MoveCommands_Reread(p, move_ok) ==
    LET q == IF IsSome(saved_position) THEN Unwrap(saved_position) ELSE p
    IN << [x |-> p.x, y |-> q.y, coordinate |-> "Abs", ok |-> move_ok] >>

\* enigo.move_mouse(pos.x, pos.y, enigo::Coordinate::Abs)
MoveCommands(p, move_ok) ==
    << [x |-> p.x, y |-> p.y, coordinate |-> "Abs", ok |-> move_ok] >>

RestoreOutcome_True(engine_ok, move_ok) == TRUE

RestoreOutcome_Confirmed(engine_ok, move_ok) == engine_ok /\ move_ok

\* if let Ok(mut enigo) = .. { let _ = enigo.move_mouse(..); return true } false
RestoreOutcome(engine_ok, move_ok) == engine_ok

\* where the pointer is after the commands: a command the OS carried out moves it
After(cmds, at) ==
    LET landed == {i \in 1..Len(cmds) : cmds[i].ok} IN
    IF landed = {} THEN at
    ELSE LET i == CHOOSE i \in landed : \A j \in landed : j <= i
         IN <<cmds[i].x, cmds[i].y>>

\* restore_position, second half: Enigo::new, move_mouse, return
RestoreMove ==
    /\ upc \in {"restore_hotkey", "restore_button"}
    /\ \E engine_ok \in BOOLEAN, move_ok \in BOOLEAN :
          /\ enigo' = IF engine_ok THEN "ok" ELSE "err"
          /\ issued' = IF engine_ok THEN MoveCommands(Unwrap(pos), move_ok) ELSE <<>>
          /\ ret' = Bool(RestoreOutcome(engine_ok, move_ok))
    /\ mouse' = After(issued', mouse)
    /\ Feedback(ret'.bool)
    /\ pos' = None
    /\ upc' = IF upc = "restore_hotkey" THEN "drain" ELSE "ui"
    /\ UNCHANGED <<is_tracking, saved_position, engineVars, now, listenerVars,
                   hotkey_receiver, ever_started, last_call, drainVars>>
    /\ UNCHANGED lockVars

\* the Restore button (app.rs:312-313)
RestoreButton ==
    /\ upc = "ui"
    /\ RestoreRead("restore_button", "ui")
    /\ UNCHANGED <<hotkey_receiver, drainVars>>

----
\* The UI thread: handle_hotkeys (app.rs:40-61).

HandleHotkeys ==
    /\ upc = "ui"
    /\ is_tracking_lock # "ui" /\ saved_position_lock # "ui"
    /\ upc' = "drain"
    /\ drain_queued' = Len(hotkey_receiver)
    /\ drain_recv' = 0
    /\ drain_calls' = 0
    /\ UNCHANGED <<is_tracking, saved_position, engineVars, mouse, now, listenerVars,
                   hotkey_receiver, pos, facadeVars, ever_started, callVars>>
    /\ UNCHANGED lockVars

\* match action { HotKeyAction::RestorePosition => one restore_position call }
CallsFor(action) == IF action = "RestorePosition" THEN 1 ELSE 0

\* while let Ok(action) = self.hotkey_receiver.try_recv() { match action { .. } }
DrainRecv ==
    /\ upc = "drain"
    /\ hotkey_receiver # <<>>
    /\ hotkey_receiver' = Tail(hotkey_receiver)
    /\ drain_recv' = drain_recv + 1
    /\ drain_calls' = drain_calls + CallsFor(Head(hotkey_receiver))
    /\ drain_queued' = drain_queued
    /\ RestoreRead("restore_hotkey", "drain")

LoopEnds_Blocking(channel, received) == channel = <<>> /\ hpc = "done"

LoopEnds_AfterOne(channel, received) == channel = <<>> \/ received >= 1

\* the while-let loop ends when try_recv() fails: the channel is empty
LoopEnds(channel, received) == channel = <<>>

FeedbackExpired_Early(elapsed) == elapsed >= 0

FeedbackExpired_Strict(elapsed) == elapsed > FEEDBACK_DURATION_MS

\* time.elapsed().unwrap().as_millis() >= FEEDBACK_DURATION_MS as u128
FeedbackExpired(elapsed) == elapsed >= FEEDBACK_DURATION_MS

\* the loop's end, then the expiry check (app.rs:53-60), then handle_hotkeys returns
DrainEnd ==
    /\ upc = "drain"
    /\ LoopEnds(hotkey_receiver, drain_recv)
    /\ upc' = "ui"
    /\ restore_feedback_visible' =
          IF /\ restore_feedback_visible
             /\ IsSome(last_restore_time)
             /\ FeedbackExpired(now - Unwrap(last_restore_time))
          THEN FALSE
          ELSE restore_feedback_visible
    /\ drain_queued' = 0
    /\ drain_recv' = 0
    /\ drain_calls' = 0
    /\ UNCHANGED <<is_tracking, saved_position, engineVars, mouse, now, listenerVars,
                   hotkey_receiver, pos, last_restore_time, ever_started, callVars>>
    /\ UNCHANGED lockVars

\* eframe::run_native returns and drops the MouseMinderApp: Drop for MouseTracker
\* (tracker.rs:130-135) and the Receiver with what is queued; the listener and
\* the polling thread run on until the process ends
Exit ==
    /\ upc = "ui"
    /\ Lockable(is_tracking_lock, "ui") /\ saved_position_lock # "ui"
    /\ is_tracking_lock' = Dropped("ui")
    /\ UNCHANGED saved_position_lock
    /\ upc' = "exited"
    /\ is_tracking' = FALSE
    /\ hotkey_receiver' = <<>>
    /\ UNCHANGED <<saved_position, engineVars, mouse, now, listenerVars, pos, facadeVars,
                   ever_started, callVars, drainVars>>

\* A thread locks a mutex and is yet to use it.

\* is_tracking.lock() at tracker.rs:49, saved_position.lock() at tracker.rs:66
EngineLock ==
    /\ \/ /\ epc = "check"
          /\ is_tracking_lock = "free"
          /\ is_tracking_lock' = "engine"
          /\ UNCHANGED saved_position_lock
       \/ /\ epc = "save"
          /\ saved_position_lock = "free"
          /\ saved_position_lock' = "engine"
          /\ UNCHANGED is_tracking_lock
    /\ UNCHANGED <<is_tracking, saved_position, engineVars, mouse, now, listenerVars,
                   hotkey_receiver, upc, pos, facadeVars, ever_started, callVars,
                   drainVars>>

\* the lock() that opens start_tracking, stop_tracking and is_tracking
\* (tracker.rs:91, 97, 103), or get_saved_position and reset_position
\* (tracker.rs:108, 113)
UILock ==
    /\ upc = "ui"
    /\ is_tracking_lock # "ui" /\ saved_position_lock # "ui"
    /\ \/ /\ is_tracking_lock = "free"
          /\ is_tracking_lock' = "ui"
          /\ UNCHANGED saved_position_lock
       \/ /\ saved_position_lock = "free"
          /\ saved_position_lock' = "ui"
          /\ UNCHANGED is_tracking_lock
    /\ UNCHANGED <<is_tracking, saved_position, engineVars, mouse, now, listenerVars,
                   hotkey_receiver, upc, pos, facadeVars, ever_started, callVars,
                   drainVars>>

Facade ==
    \/ StartTracking \/ StopTracking \/ IsTracking \/ GetSavedPosition
    \/ ResetPosition \/ RestoreButton \/ RestoreMove
    \/ HandleHotkeys \/ DrainRecv \/ DrainEnd

----
Next == Tick \/ MouseMove \/ Engine \/ Listener \/ Facade

Spec == Init /\ [][Next]_vars

\* The polling thread keeps being scheduled.
FairSpec == Spec /\ WF_vars(Engine)

\* The threads that touch what the polling thread reads and writes: the clock,
\* the pointer, the flag and the store. restore_position and the hotkey path
\* read the store and write only the UI thread's own state and the pointer,
\* which MouseMove already moves at will.
TrackerNext ==
    \/ Tick \/ MouseMove \/ Engine
    \/ StartTracking \/ StopTracking \/ IsTracking \/ GetSavedPosition \/ ResetPosition

TrackerFairSpec == Init /\ [][TrackerNext]_vars /\ WF_vars(Engine)

\* The tracker of a user who first starts tracking when the application has
\* been up for the inactivity threshold or longer.
LateStartNext ==
    \/ Tick \/ MouseMove \/ Engine
    \/ (now >= INACTIVITY_THRESHOLD_MS /\ StartTracking)
    \/ StopTracking \/ IsTracking \/ GetSavedPosition \/ ResetPosition

LateStartSpec == Init /\ [][LateStartNext]_vars

\* Every thread of the application from launch to the drop of the
\* MouseMinderApp and beyond, with a pointer that only restores move.
LifetimeNext == Tick \/ Engine \/ Listener \/ Facade \/ Exit

LifetimeSpec == Init /\ [][LifetimeNext]_vars

\* The hotkey path, event by event: the listener handles the events recv()
\* has returned, the UI thread drains the channel, and the application may
\* exit under the listener.
HotkeyNext ==
    \/ ListenerStart \/ EventArrives
    \/ (Received(event) /\ ListenerEvent)
    \/ HandleHotkeys \/ DrainRecv \/ DrainEnd \/ Exit

HotkeySpec == Init /\ [][HotkeyNext]_vars

\* The facade once tracking is on: restores from the button and from the
\* hotkey, and the frames' handle_hotkeys. Time passes, every frame begins
\* with handle_hotkeys (app.rs:118), and the UI thread finishes the frame.
FeedbackNext ==
    \/ Tick \/ Engine \/ Listener \/ StartTracking
    \/ RestoreButton \/ RestoreMove \/ HandleHotkeys \/ DrainRecv \/ DrainEnd

FeedbackSpec ==
    /\ Init /\ [][FeedbackNext]_vars
    /\ WF_vars(Tick)
    /\ SF_vars(HandleHotkeys)
    /\ WF_vars(DrainRecv \/ DrainEnd \/ RestoreMove)

\* The polling thread and the tracker's callers with their lock() calls as
\* steps of their own. The hotkey path comes to the tracker through the same
\* restore_position as the Restore button; the listener takes no mutex.
TrackerCall ==
    \/ StartTracking \/ StopTracking \/ IsTracking \/ GetSavedPosition
    \/ ResetPosition \/ RestoreButton \/ RestoreMove

LockNext == Tick \/ Engine \/ EngineLock \/ UILock \/ TrackerCall

\* the UI thread is inside a call: it holds a mutex or is in restore_position
UIInside ==
    /\ \/ is_tracking_lock = "ui"
       \/ saved_position_lock = "ui"
       \/ upc = "restore_button"
    /\ TrackerCall

\* The polling thread keeps being scheduled and gets a mutex that is free
\* again and again; the UI thread finishes the call it is in.
LockSpec ==
    /\ Init /\ [][LockNext]_vars
    /\ SF_vars(Engine \/ EngineLock)
    /\ WF_vars(UIInside)

----
\* Shorthands of the claims.

\* the record in `store` holds the coordinates c
HoldsIn(store, c) ==
    /\ IsSome(store)
    /\ Unwrap(store).x = c[1]
    /\ Unwrap(store).y = c[2]

\* the stored record holds the coordinates c
Holds(c) == HoldsIn(saved_position, c)

\* the polling thread's save step: the locked check and write of one tick
EngineSaves == epc = "save" /\ epc' = "sleep"

\* tracking is enabled, the pointer rests at c, and the polling thread has
\* measured INACTIVITY_THRESHOLD_MS of stillness at c
Settled(c) ==
    /\ is_tracking
    /\ mouse = c
    /\ last_position = c
    /\ now - last_movement_time >= INACTIVITY_THRESHOLD_MS

\* the polling thread replaces the stored record in this step
EngineWrites ==
    /\ epc = "save"
    /\ epc' = "sleep"
    /\ saved_position' # saved_position

\* a step of restore_position's first half (from the button or from the drain)
RestoreBegins == RestoreButton \/ DrainRecv

\* handle_hotkeys returns in this step
DrainReturns == upc = "drain" /\ upc' = "ui"

----
\* C1: the polling engine replaces the stored position only while the
\* tracking flag is Enabled, under every interleaving with stop_tracking.
C1_WritesOnlyWhileEnabled ==
    [][EngineWrites => is_tracking]_vars

\* C2: on a tracker on which start_tracking was never called the stored
\* position is None, whatever the pointer does and however long it rests.
C2_NeverStartedNeverSaved ==
    ~ever_started => saved_position = None

\* the polling thread has ticked with the pointer at rest for the threshold
\* and more, and tracking was never started
C2_Witness ==
    /\ ~ever_started
    /\ tick_outcome = "skipped"
    /\ mouse = last_position
    /\ now - last_movement_time >= 2 * INACTIVITY_THRESHOLD_MS
    /\ saved_position = None

\* C3 (as claimed): once tracking is enabled and the pointer has rested at c
\* for the threshold, and stays so, the store eventually holds c with a
\* timestamp not earlier than the moment the threshold elapsed.
C3_IdleSaveIsFresh ==
    \A c \in Points :
        Settled(c) ~>
            \/ /\ Holds(c)
               /\ Unwrap(saved_position).timestamp
                      >= last_movement_time + INACTIVITY_THRESHOLD_MS
            \/ ~is_tracking
            \/ mouse # c

\* C3 (amended): once tracking is enabled and the pointer has rested at c for
\* the threshold, and stays so, the store eventually holds c; a record the
\* polling thread writes carries the coordinates it sampled and a timestamp
\* not earlier than the moment the threshold elapsed, and a record that
\* already holds c is kept as it is.
C3_IdleSave ==
    /\ \A c \in Points :
          Settled(c) ~> (Holds(c) \/ ~is_tracking \/ mouse # c)
    /\ [][EngineWrites =>
            /\ saved_position' =
                  Some(SavedPosition(last_position[1], last_position[2], now))
            /\ now >= last_movement_time + INACTIVITY_THRESHOLD_MS]_vars
    /\ [][(EngineSaves /\ Holds(last_position)) =>
            saved_position' = saved_position]_vars

\* the polling thread has just written the position the pointer rests at
C3_Witness ==
    /\ Settled(<<100, 200>>)
    /\ tick_outcome = "wrote"
    /\ saved_position = Some(SavedPosition(100, 200, now))

\* C4: a polling tick that sampled the stored coordinates leaves the store as
\* it is, timestamp included; the engine replaces the record only when the
\* store is empty or holds other coordinates than the sampled ones.
C4_Deduplication ==
    [][EngineSaves =>
          LET cur == Unwrap(current_position) IN
          /\ Holds(cur) => saved_position' = saved_position
          /\ saved_position' # saved_position =>
                /\ saved_position = None \/ ~Holds(cur)
                /\ HoldsIn(saved_position', cur)]_vars

\* a tick found the sampled coordinates stored, after the record was written
\* in an earlier idle period, and kept the record
C4_Witness ==
    /\ tick_outcome = "kept"
    /\ Holds(last_position)
    /\ Unwrap(saved_position).timestamp < now

\* C5 (as claimed): reset_position() followed by get_saved_position() from
\* the same caller returns None.
C5_ResetThenGetIsNone ==
    [][(last_call = "reset_position" /\ last_call' = "get_saved_position")
          => ret' = Position(None)]_vars

\* C5 (amended): reset_position() leaves the store None, and a following
\* get_saved_position() from the same caller returns None unless the polling
\* engine has written a new record between the two calls; then it returns
\* that record.
C5_ResetThenGet ==
    /\ [][ResetPosition => saved_position' = None]_vars
    /\ [][(last_call = "reset_position" /\ saved_position' # saved_position)
            => (ResetPosition \/ EngineWrites)]_vars
    /\ [][(last_call = "reset_position" /\ last_call' = "get_saved_position")
            => ret' = Position(saved_position)]_vars

\* the caller has reset a saved position and the engine has written since
C5_Witness ==
    /\ last_call = "reset_position"
    /\ tick_outcome = "wrote"
    /\ IsSome(saved_position)

\* C6: restore_position() reading an empty store returns false, issues no
\* pointer move and leaves the store and the tracking flag as they were.
C6_RestoreWithoutData ==
    [][(RestoreBegins /\ saved_position = None) =>
          /\ ret' = Bool(FALSE)
          /\ issued' = <<>>
          /\ enigo' = "unused"
          /\ upc' \in {"ui", "drain"}
          /\ mouse' = mouse
          /\ saved_position' = saved_position
          /\ is_tracking' = is_tracking]_vars

\* restore_position() has returned false without data, nothing moved
C6_Witness ==
    /\ last_call = "restore_position"
    /\ upc \in {"ui", "drain"}
    /\ enigo = "unused"
    /\ ret = Bool(FALSE)
    /\ saved_position = None

\* C7: with a saved position and a move engine, restore_position() issues
\* exactly one absolute move, to the (x, y) it read from the store, and
\* returns true whether or not the OS carried the move out.
C7_RestoreMovesOnce ==
    [][(RestoreMove /\ enigo' = "ok") =>
          /\ Len(issued') = 1
          /\ issued'[1].x = Unwrap(pos).x
          /\ issued'[1].y = Unwrap(pos).y
          /\ issued'[1].coordinate = "Abs"
          /\ ret' = Bool(TRUE)]_vars

\* restore_position() has returned true although the OS refused the move
C7_Witness ==
    /\ last_call = "restore_position"
    /\ enigo = "ok"
    /\ Len(issued) = 1
    /\ ~issued[1].ok
    /\ ret = Bool(TRUE)

\* C8: with a saved position but no move engine, restore_position() returns
\* false at once, issues no move and leaves store and tracking flag alone.
C8_RestoreWithoutEngine ==
    [][(RestoreMove /\ enigo' = "err") =>
          /\ ret' = Bool(FALSE)
          /\ issued' = <<>>
          /\ upc' \in {"ui", "drain"}
          /\ mouse' = mouse
          /\ saved_position' = saved_position
          /\ is_tracking' = is_tracking
          /\ UNCHANGED facadeVars]_vars

\* restore_position() has failed on the engine with a position saved
C8_Witness ==
    /\ last_call = "restore_position"
    /\ enigo = "err"
    /\ ret = Bool(FALSE)
    /\ upc \in {"ui", "drain"}
    /\ IsSome(saved_position)

\* C9: every queued RestorePosition is consumed by the drain under way and
\* causes exactly one restore_position() call; handle_hotkeys returns only
\* with the channel empty; a drain that receives nothing calls
\* restore_position() zero times and does not make the feedback visible.
C9_HotkeyRoundTrip ==
    /\ [](upc # "ui" =>
            /\ drain_calls = drain_recv
            /\ drain_recv + Len(hotkey_receiver) >= drain_queued)
    /\ [][DrainRecv =>
            /\ Len(hotkey_receiver') = Len(hotkey_receiver) - 1
            /\ last_call' = "restore_position"]_vars
    /\ [][DrainReturns =>
            /\ hotkey_receiver = <<>>
            /\ drain_calls >= drain_queued]_vars
    /\ [][(upc = "drain" /\ drain_recv = 0 /\ drain_recv' = 0) =>
            /\ drain_calls = 0
            /\ restore_feedback_visible' => restore_feedback_visible
            /\ UNCHANGED <<callVars, last_restore_time>>]_vars

\* a drain that found two actions queued has made two calls, channel empty
C9_Witness ==
    /\ upc = "drain"
    /\ drain_queued = 2
    /\ drain_calls = 2
    /\ hotkey_receiver = <<>>

\* C10: with the feedback visible, a facade tick at which 2000 ms or more
\* have passed since it was shown hides it and an earlier tick leaves it
\* visible; nothing else ever hides it.
C10_FeedbackExpiry ==
    /\ [][(DrainReturns /\ restore_feedback_visible) =>
            (restore_feedback_visible' <=>
                now - Unwrap(last_restore_time) < FEEDBACK_DURATION_MS)]_vars
    /\ [][(restore_feedback_visible /\ ~restore_feedback_visible') =>
            /\ DrainReturns
            /\ now - Unwrap(last_restore_time) >= FEEDBACK_DURATION_MS]_vars

\* the feedback was shown and a tick exactly 2000 ms later has hidden it
C10_Witness ==
    /\ ~restore_feedback_visible
    /\ IsSome(last_restore_time)
    /\ upc = "ui"
    /\ drain_recv = 0
    /\ now - Unwrap(last_restore_time) = FEEDBACK_DURATION_MS

\* C11: is_tracking() returns what the caller's most recent start_tracking()
\* or stop_tracking() set, however often that call was repeated: true after
\* start_tracking(), false after stop_tracking() and on a fresh tracker; only
\* these two calls change the flag.
C11_StartStopIdempotent ==
    /\ [](last_call = "start_tracking" => is_tracking)
    /\ [](last_call = "stop_tracking" => ~is_tracking)
    /\ [](~ever_started => ~is_tracking)
    /\ [](last_call = "is_tracking" => ret = Bool(is_tracking))
    /\ [][is_tracking' # is_tracking =>
            /\ last_call' \in {"start_tracking", "stop_tracking"}
            /\ is_tracking' = (last_call' = "start_tracking")]_vars

\* is_tracking() has returned true while the polling thread was at work
C11_Witness ==
    /\ last_call = "is_tracking"
    /\ ret = Bool(TRUE)
    /\ epc = "save"

\* C12: start_tracking() and stop_tracking() leave the stored position as it
\* is; a position saved before stop_tracking() is what get_saved_position()
\* returns right after it, timestamp included, and restore_position() still
\* reads it while tracking is disabled.
C12_StopKeepsStore ==
    /\ [][(StartTracking \/ StopTracking) => saved_position' = saved_position]_vars
    /\ [][(/\ last_call = "stop_tracking"
           /\ IsSome(saved_position)
           /\ last_call' \in {"stop_tracking", "get_saved_position"})
            => /\ saved_position' = saved_position
               /\ last_call' = "get_saved_position" => ret' = Position(saved_position)]_vars
    /\ [][(RestoreBegins /\ ~is_tracking /\ IsSome(saved_position)) =>
            /\ pos' = saved_position
            /\ upc' \in {"restore_button", "restore_hotkey"}]_vars

\* C13: when GlobalHotKeyManager::new() or register() fails the listener ends
\* for good without sending: no action is ever in the channel, and every
\* handle_hotkeys receives nothing, calls restore_position() zero times and
\* returns, leaving the pointer and the caller's state alone.
C13_ListenerFailsSilently ==
    /\ [](hpc = "done" =>
            /\ hotkey_receiver = <<>>
            /\ event = None
            /\ drain_queued = 0 /\ drain_recv = 0 /\ drain_calls = 0
            /\ upc # "restore_hotkey")
    /\ [][hpc = "done" => hpc' = "done"]_vars
    /\ [][(hpc = "done" /\ upc = "drain" /\ upc' # upc) =>
            /\ upc' = "ui"
            /\ UNCHANGED <<callVars, last_restore_time, mouse, saved_position>>]_vars

\* the listener has failed to start and a handle_hotkeys is under way, with a
\* position saved that a restore would have moved to
C13_Witness ==
    /\ hpc = "done"
    /\ upc = "drain"
    /\ IsSome(saved_position)

\* C14: no thread ever holds both mutexes, none holds a mutex while it sleeps
\* or while it builds the move engine and moves the pointer; so every mutex
\* taken is given back, every polling tick reaches its sleep and every
\* restore_position() returns.
C14_DeadlockFreedom ==
    /\ [](\A me \in {"engine", "ui"} :
            ~(is_tracking_lock = me /\ saved_position_lock = me))
    /\ [](epc = "sleep" =>
            is_tracking_lock # "engine" /\ saved_position_lock # "engine")
    /\ [](upc \in {"restore_button", "restore_hotkey"} =>
            is_tracking_lock # "ui" /\ saved_position_lock # "ui")
    /\ \A me \in {"engine", "ui"} :
          /\ (is_tracking_lock = me) ~> (is_tracking_lock = "free")
          /\ (saved_position_lock = me) ~> (saved_position_lock = "free")
    /\ (epc # "sleep") ~> (epc = "sleep")
    /\ (upc \in {"restore_button", "restore_hotkey"}) ~> (upc \in {"ui", "drain"})

\* the polling thread is at its write and waits for the store's mutex, which
\* the UI thread holds
C14_Witness ==
    /\ epc = "save"
    /\ saved_position_lock = "ui"
    /\ is_tracking_lock = "free"

\* C15: restore_position() moves to the x and the y of the one record that was
\* the store's content when it read the store under the lock, whatever the
\* polling thread writes before the move is issued.
C15_RestoreUsesOneRecord ==
    /\ [][RestoreBegins => pos' = saved_position]_vars
    /\ [](upc \in {"restore_button", "restore_hotkey"} => IsSome(pos))
    /\ [][(upc \in {"restore_button", "restore_hotkey"} /\ upc' = upc) =>
            pos' = pos]_vars
    /\ [][(issued' # issued /\ issued' # <<>>) =>
            \A i \in 1..Len(issued') :
                <<issued'[i].x, issued'[i].y>> = <<Unwrap(pos).x, Unwrap(pos).y>>]_vars

\* restore_position() has moved to the record it read although the polling
\* thread had replaced it by then
C15_Witness ==
    /\ last_call = "restore_position"
    /\ Len(issued) = 1
    /\ IsSome(saved_position)
    /\ ~Holds(<<issued[1].x, issued[1].y>>)

\* C16: an enabled tick whose sample differs from last_position only sets
\* last_movement_time to now and last_position to the sample, and ends without
\* writing the store; the store gets a record only from a tick whose sample
\* equals last_position, with now - last_movement_time >= 2000 ms.
C16_MovementOnlyResets ==
    /\ [][(epc = "sample" /\ epc' # epc /\ Moved(mouse, last_position)) =>
            /\ last_movement_time' = now
            /\ last_position' = mouse
            /\ epc' = "sleep"
            /\ saved_position' = saved_position]_vars
    /\ [](epc = "save" =>
            /\ current_position = Some(last_position)
            /\ now - last_movement_time >= INACTIVITY_THRESHOLD_MS)
    /\ [][(saved_position' # saved_position /\ IsSome(saved_position')) =>
            /\ EngineWrites
            /\ HoldsIn(saved_position', last_position)]_vars

\* a tick has found the pointer moved, with a record of another position
\* stored, and has left the record alone
C16_Witness ==
    /\ tick_outcome = "moved"
    /\ last_movement_time = now
    /\ IsSome(saved_position)
    /\ ~Holds(last_position)

\* C17 (as claimed): the time before tracking is started does not count
\* toward the idle duration, so when tracking is first started 2000 ms or more
\* after launch nothing is saved in the 2000 ms that follow, that is, before
\* 4000 ms.
C17_NoSaveSoonAfterStart ==
    now < 2 * INACTIVITY_THRESHOLD_MS => saved_position = None

\* C17 (amended): the engine writes (x, y) only when it is last_position and
\* 2000 ms or more have passed since last_movement_time; both change only on
\* an enabled tick that finds the pointer elsewhere than last_position, so
\* the time tracking was disabled, or not yet started, counts.
C17_SaveAfterNoObservedChange ==
    /\ [][EngineWrites =>
            /\ HoldsIn(saved_position', last_position)
            /\ now - last_movement_time >= INACTIVITY_THRESHOLD_MS]_vars
    /\ [][(last_movement_time' # last_movement_time \/ last_position' # last_position) =>
            /\ epc = "sample"
            /\ last_position' = mouse /\ last_position' # last_position
            /\ last_movement_time' = now]_vars
    /\ [](epc \in {"sample", "save"} => ever_started)

\* the engine has saved a position in the very clock period in which tracking
\* was started for the first time
C17_Witness ==
    /\ tick_outcome = "wrote"
    /\ now = INACTIVITY_THRESHOLD_MS
    /\ is_tracking
    /\ saved_position = Some(SavedPosition(last_position[1], last_position[2], now))

\* C18: the listener sends exactly one RestorePosition for an event that is
\* Pressed and carries the registered id, and nothing for any other event;
\* when the send fails because the receiver is gone the listener goes on
\* listening.
C18_OneActionPerMatchingPress ==
    /\ [][(Received(event) /\ event' # event) =>
            LET e == Unwrap(event)
                handled == Unwrap(event')
            IN  /\ handled.state = e.state /\ handled.id = e.id
                /\ hpc' = "listening"
                /\ IF e.state = "Pressed" /\ e.id = RestoreId
                   THEN IF upc # "exited"
                        THEN /\ handled.status = "sent"
                             /\ hotkey_receiver' =
                                    Append(hotkey_receiver, "RestorePosition")
                        ELSE /\ handled.status = "send_err"
                             /\ hotkey_receiver' = hotkey_receiver
                   ELSE /\ handled.status = "ignored"
                        /\ hotkey_receiver' = hotkey_receiver]_vars
    /\ [][Len(hotkey_receiver') > Len(hotkey_receiver) =>
            /\ Received(event)
            /\ event' = Some(Event("Pressed", RestoreId, "sent"))]_vars
    /\ [][hpc = "listening" => hpc' = "listening"]_vars

\* a send has failed on the dropped receiver and the listener is still in
\* its loop
C18_Witness ==
    /\ upc = "exited"
    /\ event = Some(Event("Pressed", RestoreId, "send_err"))
    /\ hpc = "listening"

\* C19: the feedback becomes visible, and its time is stamped, only by a
\* restore_position() that returned true; an action drained with no position
\* saved, or with no move engine to be had, leaves both as they were.
C19_FeedbackOnlyOnSuccess ==
    /\ [][(\/ ~restore_feedback_visible /\ restore_feedback_visible'
           \/ last_restore_time' # last_restore_time) =>
            /\ upc \in {"restore_button", "restore_hotkey"}
            /\ last_call' = "restore_position"
            /\ ret' = Bool(TRUE)
            /\ restore_feedback_visible'
            /\ last_restore_time' = Some(now)]_vars
    /\ [][(DrainRecv /\ saved_position = None) =>
            /\ ret' = Bool(FALSE)
            /\ UNCHANGED facadeVars]_vars
    /\ [][(upc = "restore_hotkey" /\ enigo' = "err") =>
            /\ ret' = Bool(FALSE)
            /\ UNCHANGED facadeVars]_vars

\* a drained action found a position saved but no move engine, and the
\* feedback has stayed hidden
C19_Witness ==
    /\ upc = "drain"
    /\ drain_recv >= 1
    /\ last_call = "restore_position"
    /\ enigo = "err"
    /\ ~restore_feedback_visible
    /\ last_restore_time = None

\* C20: the feedback is hidden no earlier than FEEDBACK_DURATION_MS after the
\* latest successful restore, which stamps its time anew; and with the frames
\* going on it is hidden in the end, unless the last stamp lies so late that
\* its expiry is past the clock's horizon.
C20_FeedbackLastsItsDuration ==
    /\ [][(restore_feedback_visible /\ ~restore_feedback_visible') =>
            now - Unwrap(last_restore_time) >= FEEDBACK_DURATION_MS]_vars
    /\ [][(upc \in {"restore_button", "restore_hotkey"} /\ ret' = Bool(TRUE)) =>
            /\ restore_feedback_visible'
            /\ last_restore_time' = Some(now)]_vars
    /\ [](restore_feedback_visible =>
            IsSome(last_restore_time) /\ Unwrap(last_restore_time) <= now)
    /\ restore_feedback_visible ~>
            \/ ~restore_feedback_visible
            \/ Unwrap(last_restore_time) + FEEDBACK_DURATION_MS > MaxTime

\* the latest restore succeeded, and a frame at least 2000 ms later has
\* hidden the feedback
C20_Witness ==
    /\ ~restore_feedback_visible
    /\ last_call = "restore_position"
    /\ ret = Bool(TRUE)
    /\ IsSome(last_restore_time)
    /\ now - Unwrap(last_restore_time) >= FEEDBACK_DURATION_MS

\* C21: handle_hotkeys never waits for the listener: with the channel empty it
\* can return at once, whether the listener is alive or has ended and dropped
\* the sender, and a handle_hotkeys under way does return.
C21_DrainNeverBlocks ==
    /\ [](upc = "drain" /\ hotkey_receiver = <<>> => ENABLED DrainEnd)
    /\ (upc = "drain") ~> (upc = "ui")

\* a handle_hotkeys has received an action and finds the channel empty while
\* the listener is alive and may send again
C21_Witness ==
    /\ upc = "drain"
    /\ drain_recv >= 1
    /\ hotkey_receiver = <<>>
    /\ hpc = "listening"

\* C22: the tracking flag is changed only by start_tracking, stop_tracking
\* and the tracker's drop; the store becomes Some only by the polling engine's
\* write and None only by reset_position; the polling engine, the hotkey path
\* and restore_position leave the flag alone, and restore_position,
\* get_saved_position and is_tracking leave both cells alone.
C22_WriteOwnership ==
    /\ [][is_tracking' # is_tracking =>
            StartTracking \/ StopTracking \/ Exit]_vars
    /\ [][(saved_position' # saved_position /\ IsSome(saved_position')) =>
            EngineSave]_vars
    /\ [][(saved_position' # saved_position /\ saved_position' = None) =>
            ResetPosition]_vars
    /\ [][(Engine \/ Listener \/ HandleHotkeys \/ DrainRecv \/ DrainEnd \/ ResetPosition) =>
            is_tracking' = is_tracking]_vars
    /\ [][(RestoreBegins \/ RestoreMove \/ GetSavedPosition \/ IsTracking) =>
            UNCHANGED <<is_tracking, saved_position>>]_vars

\* the drop has cleared the flag that start_tracking had set, with a position
\* saved by the engine still in the store
C22_Witness ==
    /\ upc = "exited"
    /\ last_call = "start_tracking"
    /\ ~is_tracking
    /\ IsSome(saved_position)

\* C23: a record enters the store only with the coordinates the engine
\* sampled on the tick that writes it, and these are last_position on that
\* tick: the initial (0, 0) or what an earlier enabled tick sampled; the
\* pointer's later moves do not reach the record.
C23_StoredIsSampled ==
    /\ [][(epc = "sample" /\ epc' = "save") =>
            /\ current_position' = Some(mouse)
            /\ mouse = last_position
            /\ last_position' = last_position]_vars
    /\ [][(epc = "save" /\ epc' = "save") =>
            UNCHANGED <<current_position, last_position>>]_vars
    /\ [][(saved_position' # saved_position /\ IsSome(saved_position')) =>
            /\ epc = "save"
            /\ HoldsIn(saved_position', Unwrap(current_position))
            /\ Unwrap(current_position) = last_position]_vars
    /\ [][last_position' # last_position =>
            epc = "sample" /\ last_position' = mouse]_vars
    /\ [](IsSome(saved_position) =>
            <<Unwrap(saved_position).x, Unwrap(saved_position).y>> \in Points)

\* the engine has written the position it sampled although the pointer had
\* left it before the write
C23_Witness ==
    /\ tick_outcome = "wrote"
    /\ Holds(last_position)
    /\ Unwrap(saved_position).timestamp = now
    /\ mouse # last_position

\* C24: whenever the feedback is visible last_restore_time is Some: the two
\* are set together, and last_restore_time, once Some, is never None again.
C24_VisibleHasTimestamp ==
    /\ [](restore_feedback_visible => IsSome(last_restore_time))
    /\ [][(~restore_feedback_visible /\ restore_feedback_visible') =>
            last_restore_time' = Some(now)]_vars
    /\ [][IsSome(last_restore_time) => IsSome(last_restore_time')]_vars

\* handle_hotkeys is at its expiry test with the feedback visible and its
\* duration over
C24_Witness ==
    /\ upc = "drain"
    /\ hotkey_receiver = <<>>
    /\ restore_feedback_visible
    /\ now - Unwrap(last_restore_time) >= FEEDBACK_DURATION_MS

====
